---- MODULE Spec2Model ----
(***************************************************************************)
(* A model of odata_v4_query: the query options parser of                  *)
(* src/odata_v4_query/query_parser.py (ODataQueryParser) and, from the     *)
(* grammar of spec.md section 4, the filter tokenizer and parser it calls  *)
(* (filter_tokenizer.py and filter_parser.py are imported by the package   *)
(* but their text is not among the source files).                          *)
(*                                                                         *)
(* A Python str is a sequence of one-character strings, so that strip,     *)
(* lower, split, replace, endswith and int() are computed character by     *)
(* character.  A $filter value is kept at the granularity of its lexemes.  *)
(* Optional[T] is a sequence of length at most one: None is << >> and      *)
(* a present value x is <<x>>.                                             *)
(***************************************************************************)
EXTENDS Integers, Sequences, FiniteSets, TLC

VARIABLES
    pc,             \* where parse_query_params is: "idle", "loop", "returned", "raised"
    query_params,   \* the argument: the dict's items in iteration order
    idx,            \* the item the for loop of line 93 handles next
    options,        \* the local ODataQueryOptions being filled
    obj,            \* the identity of the object `options` refers to
    allocated,      \* how many ODataQueryOptions objects were constructed so far
    error,          \* the exception that left the call, if any
    result,         \* what the call returned to its caller, if it returned
    calls,          \* the handler invocations of this call, in order: <<param, value>>
    parse_calls,    \* the arguments filter_parser.parse was called with in this call
    handed,         \* the objects earlier calls on this parser returned to their callers
    fn,             \* handler laboratory: the function applied ("" before)
    arg,            \* handler laboratory: the str (or token sequence) it is applied to
    out             \* handler laboratory: what the application produced

vars == <<pc, query_params, idx, options, obj, allocated, error, result, calls,
          parse_calls, handed, fn, arg, out>>

None == << >>
Some(x) == <<x>>

(***************************************************************************)
(* Bounds of the model.                                                    *)
(***************************************************************************)
MaxParams == 2      \* items in one query_params dict
MaxValues == 2      \* values in one item's value list
MaxCalls == 3       \* parse_query_params calls on one parser instance
MaxChunks == 3      \* pieces a laboratory $orderby value is concatenated from
MaxIntLen == 3      \* characters of a laboratory $skip / $top value
MaxTokens == 13     \* lexemes of a laboratory $filter value

(***************************************************************************)
(* str methods.                                                            *)
(***************************************************************************)
Upper == <<"A","B","C","D","E","F","G","H","I","J","K","L","M",
           "N","O","P","Q","R","S","T","U","V","W","X","Y","Z">>
Lowercase == <<"a","b","c","d","e","f","g","h","i","j","k","l","m",
               "n","o","p","q","r","s","t","u","v","w","x","y","z">>
Digits == <<"0","1","2","3","4","5","6","7","8","9">>
Whitespace == {" "}

LowerChar(c) ==
    IF \E i \in 1..Len(Upper) : Upper[i] = c
    THEN Lowercase[CHOOSE i \in 1..Len(Upper) : Upper[i] = c]
    ELSE c

\* str.lower()
Lower(s) == [i \in 1..Len(s) |-> LowerChar(s[i])]

RECURSIVE LStrip(_)
LStrip(s) ==
    IF s # << >> /\ Head(s) \in Whitespace THEN LStrip(Tail(s)) ELSE s

RECURSIVE RStrip(_)
RStrip(s) ==
    IF s # << >> /\ s[Len(s)] \in Whitespace
    THEN RStrip(SubSeq(s, 1, Len(s) - 1))
    ELSE s

\* str.strip()
Strip(s) == RStrip(LStrip(s))

\* str.endswith(suffix)
EndsWith(s, suffix) ==
    /\ Len(s) >= Len(suffix)
    /\ SubSeq(s, Len(s) - Len(suffix) + 1, Len(s)) = suffix

\* str.split(sep) for a one-character sep
RECURSIVE Split(_, _)
Split(s, sep) ==
    IF \E i \in 1..Len(s) : s[i] = sep
    THEN LET i == CHOOSE j \in 1..Len(s) :
                      s[j] = sep /\ \A k \in 1..(j - 1) : s[k] # sep
         IN  <<SubSeq(s, 1, i - 1)>> \o Split(SubSeq(s, i + 1, Len(s)), sep)
    ELSE <<s>>

\* str.replace(old, new): every non-overlapping occurrence, left to right
RECURSIVE Replace(_, _, _)
Replace(s, old, new) ==
    IF Len(s) < Len(old) \/ old = << >> THEN s
    ELSE IF SubSeq(s, 1, Len(old)) = old
         THEN new \o Replace(SubSeq(s, Len(old) + 1, Len(s)), old, new)
         ELSE <<Head(s)>> \o Replace(Tail(s), old, new)

IsDigit(c) == \E i \in 1..Len(Digits) : Digits[i] = c
DigitVal(c) == (CHOOSE i \in 1..Len(Digits) : Digits[i] = c) - 1

\* The digits of an int() literal: digits, single underscores between digits.
RECURSIVE DigitsValue(_, _)
DigitsValue(s, acc) ==
    IF s = << >> THEN acc
    ELSE IF Head(s) = "_" THEN DigitsValue(Tail(s), acc)
         ELSE DigitsValue(Tail(s), 10 * acc + DigitVal(Head(s)))

IsDigitString(s) ==
    /\ s # << >>
    /\ \A i \in 1..Len(s) : IsDigit(s[i]) \/ s[i] = "_"
    /\ IsDigit(s[1]) /\ IsDigit(s[Len(s)])
    /\ \A i \in 1..(Len(s) - 1) : ~(s[i] = "_" /\ s[i + 1] = "_")

\* int(value) for a str: surrounding whitespace, an optional sign, decimal digits;
\* ok = FALSE stands for the ValueError.
IntOf(value) ==
    LET t == Strip(value)
        signed == t # << >> /\ Head(t) \in {"-", "+"}
        body == IF signed THEN Tail(t) ELSE t
    IN  IF IsDigitString(body)
        THEN [ok |-> TRUE,
              val |-> IF signed /\ Head(t) = "-"
                      THEN 0 - DigitsValue(body, 0)
                      ELSE DigitsValue(body, 0)]
        ELSE [ok |-> FALSE, val |-> 0]

(***************************************************************************)
(* The filter tokenizer and parser (spec.md sections 3, 4.1, 4.2 and 7).   *)
(* A filter value is its sequence of lexemes; the tables below give the    *)
(* lexical class of each lexeme the model uses.                            *)
(***************************************************************************)
Identifiers == {"a", "b", "Address/City"}
StringLiterals == {"'x'"}
NumberLiterals == {"1"}
BooleanLiterals == {"true", "false"}
NullLiterals == {"null"}
ComparisonOperators == {"eq", "ne", "gt", "ge", "lt", "le"}
LogicalKeywords == {"and", "or", "not"}
Functions == {"contains", "startswith", "endswith"}

\* Keywords are recognised case-insensitively: the lowercase form of a lexeme.
Canon(lexeme) ==
    CASE lexeme = "AND" -> "and"
      [] lexeme = "OR" -> "or"
      [] lexeme = "NOT" -> "not"
      [] lexeme = "EQ" -> "eq"
      [] lexeme = "TRUE" -> "true"
      [] lexeme = "NULL" -> "null"
      [] OTHER -> lexeme

\* Token.kind of a lexeme; "Invalid" is a lexeme the tokenizer rejects
\* (an unterminated string, a malformed number, an unrecognised character).
TokenKind(lexeme) ==
    CASE lexeme = "(" -> "LParen"
      [] lexeme = ")" -> "RParen"
      [] lexeme = "," -> "Comma"
      [] Canon(lexeme) \in BooleanLiterals -> "BooleanLiteral"
      [] Canon(lexeme) \in NullLiterals -> "NullLiteral"
      [] Canon(lexeme) \in LogicalKeywords -> "LogicalKeyword"
      [] Canon(lexeme) \in ComparisonOperators -> "Operator"
      [] Canon(lexeme) \in Functions -> "Function"
      [] lexeme \in StringLiterals -> "StringLiteral"
      [] lexeme \in NumberLiterals -> "NumberLiteral"
      [] lexeme \in Identifiers -> "Identifier"
      [] OTHER -> "Invalid"

\* tokenize(input): the tokens in source order, or the LexError.
tokenize(input) ==
    IF \E i \in 1..Len(input) : TokenKind(input[i]) = "Invalid"
    THEN [ok |-> FALSE, err |-> "LexError", tokens |-> << >>]
    ELSE [ok |-> TRUE, err |-> "",
          tokens |-> [i \in 1..Len(input) |->
                          [kind |-> TokenKind(input[i]),
                           text |-> Canon(input[i]),
                           position |-> i]]]

\* field_path := identifier ( "/" identifier )*
field_path(text) ==
    IF text = "Address/City" THEN <<"Address", "City">> ELSE <<text>>

\* literal := string | number | boolean | null
IsLiteral(tok) ==
    tok.kind \in {"StringLiteral", "NumberLiteral", "BooleanLiteral", "NullLiteral"}

literal(tok) ==
    CASE tok.kind = "StringLiteral" -> [type |-> "String", text |-> tok.text]
      [] tok.kind = "NumberLiteral" -> [type |-> "Number", text |-> tok.text]
      [] tok.kind = "BooleanLiteral" -> [type |-> "Boolean", text |-> tok.text]
      [] OTHER -> [type |-> "Null", text |-> "null"]

Comparison(path, op, value) ==
    [kind |-> "Comparison", field_path |-> path, operator |-> op, value |-> value]
FunctionCall(name, path, argument) ==
    [kind |-> "FunctionCall", name |-> name, field_path |-> path, argument |-> argument]
Unary(operand) ==
    [kind |-> "Unary", operator |-> "not", operand |-> operand]
Logical(op, left, right) ==
    [kind |-> "Logical", operator |-> op, left |-> left, right |-> right]

\* What a grammar procedure hands back: the node and the next position, or the
\* SyntaxError.
Parsed(node, pos) == [ok |-> TRUE, node |-> node, pos |-> pos]
Failed(pos) == [ok |-> FALSE, node |-> << >>, pos |-> pos]

IsTok(ts, p, kind, text) ==
    p <= Len(ts) /\ ts[p].kind = kind /\ ts[p].text = text
IsKind(ts, p, kind) == p <= Len(ts) /\ ts[p].kind = kind

RECURSIVE or_expr(_, _)
RECURSIVE or_rest(_, _, _)
RECURSIVE and_expr(_, _)
RECURSIVE and_rest(_, _, _)
RECURSIVE unary_expr(_, _)
RECURSIVE primary(_, _)

\* comparison := field_path comparison_op literal
comparison(ts, p) ==
    IF /\ IsKind(ts, p, "Identifier")
       /\ IsKind(ts, p + 1, "Operator")
       /\ p + 2 <= Len(ts) /\ IsLiteral(ts[p + 2])
    THEN Parsed(Comparison(field_path(ts[p].text), ts[p + 1].text, literal(ts[p + 2])),
                p + 3)
    ELSE Failed(p)

\* function_call := func_name "(" field_path "," literal ")", the literal a string
function_call(ts, p) ==
    IF /\ IsKind(ts, p, "Function")
       /\ IsKind(ts, p + 1, "LParen")
       /\ IsKind(ts, p + 2, "Identifier")
       /\ IsKind(ts, p + 3, "Comma")
       /\ IsKind(ts, p + 4, "StringLiteral")
       /\ IsKind(ts, p + 5, "RParen")
    THEN Parsed(FunctionCall(ts[p].text, field_path(ts[p + 2].text), literal(ts[p + 4])),
                p + 6)
    ELSE Failed(p)

\* The ")" that closes a parenthesised expression: the group leaves no node.
CloseGroup(ts, inner) ==
    IF inner.ok /\ IsKind(ts, inner.pos, "RParen")
    THEN Parsed(inner.node, inner.pos + 1)
    ELSE Failed(inner.pos)

\* primary := "(" expression ")" | comparison | function_call
primary(ts, p) ==
    IF IsKind(ts, p, "LParen") THEN CloseGroup(ts, or_expr(ts, p + 1))
    ELSE IF IsKind(ts, p, "Function") THEN function_call(ts, p)
         ELSE comparison(ts, p)

Negate(operand) ==
    IF operand.ok THEN Parsed(Unary(operand.node), operand.pos) ELSE operand

\* unary_expr := "not" unary_expr | primary
unary_expr(ts, p) ==
    IF IsTok(ts, p, "LogicalKeyword", "not")
    THEN Negate(unary_expr(ts, p + 1))
    ELSE primary(ts, p)

\* One more operand of a chain of "and": the tree so far becomes the left child.
AndStep(ts, left, right) ==
    IF right.ok
    THEN and_rest(ts, Logical("and", left, right.node), right.pos)
    ELSE right

\* ( "and" unary_expr )* with the tree built so far on the left
and_rest(ts, left, p) ==
    IF IsTok(ts, p, "LogicalKeyword", "and")
    THEN AndStep(ts, left, unary_expr(ts, p + 1))
    ELSE Parsed(left, p)

AndFirst(ts, first) ==
    IF first.ok THEN and_rest(ts, first.node, first.pos) ELSE first

\* and_expr := unary_expr ( "and" unary_expr )*
and_expr(ts, p) == AndFirst(ts, unary_expr(ts, p))

\* A chain of "or" that leans right: the right operand is the rest of the chain.
OrStepRight(left, right) ==
    IF right.ok THEN Parsed(Logical("or", left, right.node), right.pos) ELSE right

or_rest_right(ts, left, p) ==
    IF IsTok(ts, p, "LogicalKeyword", "or")
    THEN OrStepRight(left, or_expr(ts, p + 1))
    ELSE Parsed(left, p)

\* One more operand of a chain of "or": the tree so far becomes the left child.
OrStep(ts, left, right) ==
    IF right.ok
    THEN or_rest(ts, Logical("or", left, right.node), right.pos)
    ELSE right

\* ( "or" and_expr )* with the tree built so far on the left
or_rest(ts, left, p) ==
    IF IsTok(ts, p, "LogicalKeyword", "or")
    THEN OrStep(ts, left, and_expr(ts, p + 1))
    ELSE Parsed(left, p)

OrFirst(ts, first) ==
    IF first.ok THEN or_rest(ts, first.node, first.pos) ELSE first

\* or_expr := and_expr ( "or" and_expr )*
or_expr(ts, p) == OrFirst(ts, and_expr(ts, p))

\* expression := or_expr
expression(ts, p) == or_expr(ts, p)

\* Empty input and tokens left after a complete expression are syntax errors.
Root(tokens, root) ==
    IF root.ok /\ root.pos = Len(tokens) + 1
    THEN [ok |-> TRUE, err |-> "", node |-> root.node]
    ELSE [ok |-> FALSE, err |-> "SyntaxError", node |-> << >>]

ParseTokens(lexed) ==
    IF ~lexed.ok THEN [ok |-> FALSE, err |-> "LexError", node |-> << >>]
    ELSE Root(lexed.tokens, expression(lexed.tokens, 1))

\* ODataFilterParser.parse(value): the root FilterNode, or the typed error.
parse(value) == ParseTokens(tokenize(value))

(***************************************************************************)
(* ODataQueryOptions and the handlers of ODataQueryParser.                 *)
(***************************************************************************)
\* The dataclass and its defaults.
ODataQueryOptions ==
    [count |-> FALSE, expand |-> None, filter_ |-> None, format_ |-> None,
     orderby |-> None, search |-> None, select |-> None, skip |-> None, top |-> None]

\* The exceptions: option is "" for an exception that carries no option name.
NoPositiveIntegerValue(option, value) ==
    [type |-> "NoPositiveIntegerValue", option |-> option, value |-> value]
UnsupportedFormat(value) ==
    [type |-> "UnsupportedFormat", option |-> "", value |-> value]
FilterError(type, value) ==
    [type |-> type, option |-> "", value |-> value]

\* What a handler leaves behind: the options object as it now is, the exception
\* it raised (None: it returned), and the arguments it called
\* filter_parser.parse with.
Done(opts) == [options |-> opts, raised |-> None, parses |-> << >>]
Raise(opts, exc) == [options |-> opts, raised |-> Some(exc), parses |-> << >>]

_parse_count(value, opts) ==
    Done([opts EXCEPT !.count = (Lower(value) = <<"t", "r", "u", "e">>)])

StripAll(items) == [i \in 1..Len(items) |-> Strip(items[i])]

_parse_expand(value, opts) ==
    IF value # << >>
    THEN Done([opts EXCEPT !.expand = Some(StripAll(Split(value, ",")))])
    ELSE Done(opts)

\* options.filter_ = <the tree parse returned>, or parse's exception goes on.
StoreFilter(value, opts, tree) ==
    IF tree.ok
    THEN [options |-> [opts EXCEPT !.filter_ = Some(tree.node)],
          raised |-> None, parses |-> <<value>>]
    ELSE [options |-> opts,
          raised |-> Some(FilterError(tree.err, value)), parses |-> <<value>>]

\* A handler that calls parse and drops its exception.
SwallowFilter(value, opts, tree) ==
    IF tree.ok THEN StoreFilter(value, opts, tree)
    ELSE [options |-> opts, raised |-> None, parses |-> <<value>>]

_parse_filter_swallow(value, opts) == SwallowFilter(value, opts, parse(value))

_parse_filter(value, opts) == StoreFilter(value, opts, parse(value))

SupportedFormats ==
    {<<"j", "s", "o", "n">>, <<"x", "m", "l">>, <<"c", "s", "v">>, <<"t", "s", "v">>}

\* A handler that stores any format.
_parse_format_any(value, opts) == Done([opts EXCEPT !.format_ = Some(value)])

_parse_format(value, opts) ==
    IF value \notin SupportedFormats
    THEN Raise(opts, UnsupportedFormat(value))
    ELSE Done([opts EXCEPT !.format_ = Some(value)])

AscSuffix == <<" ", "a", "s", "c">>
DescSuffix == <<" ", "d", "e", "s", "c">>

\* One iteration of the loop of _parse_orderby: the entry appended for an item.
OrderbyEntry(raw) ==
    LET item == Strip(raw)
        lowercased_item == Lower(item)
    IN  IF EndsWith(lowercased_item, AscSuffix)
        THEN [field |-> Strip(Replace(item, AscSuffix, << >>)), direction |-> "asc"]
        ELSE IF EndsWith(lowercased_item, DescSuffix)
             THEN [field |-> Strip(Replace(item, DescSuffix, << >>)),
                   direction |-> "desc"]
             ELSE [field |-> item, direction |-> "asc"]

_parse_orderby(value, opts) ==
    IF value = << >> THEN Done(opts)
    ELSE LET items == Split(value, ",")
         IN  Done([opts EXCEPT
                     !.orderby = Some([i \in 1..Len(items) |-> OrderbyEntry(items[i])])])

_parse_search(value, opts) ==
    Done([opts EXCEPT !.search = Some(Strip(value))])

_parse_select(value, opts) ==
    IF value # << >>
    THEN Done([opts EXCEPT !.select = Some(StripAll(Split(value, ",")))])
    ELSE Done(opts)

\* options.skip is assigned before the assert: a negative value is stored in
\* the object and then the exception is raised.
SkipFrom(value, opts, n) ==
    IF ~n.ok THEN Raise(opts, NoPositiveIntegerValue("$skip", value))
    ELSE IF ~(n.val >= 0)
         THEN Raise([opts EXCEPT !.skip = Some(n.val)],
                    NoPositiveIntegerValue("$skip", value))
         ELSE Done([opts EXCEPT !.skip = Some(n.val)])

\* A handler without the assert: any integer is stored.
SkipUnchecked(value, opts, n) ==
    IF ~n.ok THEN Raise(opts, NoPositiveIntegerValue("$skip", value))
    ELSE Done([opts EXCEPT !.skip = Some(n.val)])

_parse_skip_unchecked(value, opts) == SkipUnchecked(value, opts, IntOf(value))

_parse_skip(value, opts) == SkipFrom(value, opts, IntOf(value))

TopFrom(value, opts, n) ==
    IF ~n.ok THEN Raise(opts, NoPositiveIntegerValue("$top", value))
    ELSE IF ~(n.val >= 0)
         THEN Raise([opts EXCEPT !.top = Some(n.val)],
                    NoPositiveIntegerValue("$top", value))
         ELSE Done([opts EXCEPT !.top = Some(n.val)])

_parse_top(value, opts) == TopFrom(value, opts, IntOf(value))

\* self.supported_options: its keys, and the call through the handler of a key.
supported_options ==
    {"$count", "$expand", "$filter", "$format", "$orderby", "$search", "$select",
     "$skip", "$top"}

parser_func(param, value, opts) ==
    CASE param = "$count" -> _parse_count(value, opts)
      [] param = "$expand" -> _parse_expand(value, opts)
      [] param = "$filter" -> _parse_filter(value, opts)
      [] param = "$format" -> _parse_format(value, opts)
      [] param = "$orderby" -> _parse_orderby(value, opts)
      [] param = "$search" -> _parse_search(value, opts)
      [] param = "$select" -> _parse_select(value, opts)
      [] param = "$skip" -> _parse_skip(value, opts)
      [] OTHER -> _parse_top(value, opts)

\* The last value of the list instead of the first.
LastValue(values) == IF values # << >> THEN Some(values[Len(values)]) ELSE None

\* value = values[0] if values else None
FirstValue(values) == IF values # << >> THEN Some(values[1]) ELSE None

\* One options object kept by the parser and filled again by every call.
ReusedOptions ==
    IF allocated = 0
    THEN [obj |-> 1, fields |-> ODataQueryOptions]
    ELSE [obj |-> obj, fields |-> options]

\* options = ODataQueryOptions(): a new object with the defaults.
NewOptions == [obj |-> allocated + 1, fields |-> ODataQueryOptions]

\* A loop that notes the exception and goes on with the next parameter.
KeepGoing(r) == "loop"

\* Where the call is once a handler is back: an exception leaves the loop and
\* the call.
AfterHandler(r) == IF r.raised # None THEN "raised" ELSE "loop"

(***************************************************************************)
(* The requests the model draws.                                           *)
(***************************************************************************)
\* A key parse_query_params does not support.
UnsupportedParam == "$apply"

Params == supported_options \cup {UnsupportedParam}

\* The values a request gives a parameter: for each handler that can fail one it
\* accepts and one it rejects.
Values(param) ==
    CASE param = "$count" -> {<<"T", "r", "u", "e">>}
      [] param = "$expand" -> {<<"a", ",", " ", "b">>}
      [] param = "$filter" -> {<<"a", "eq", "1">>, <<"a", "eq">>}
      [] param = "$format" -> {<<"x", "m", "l">>, <<"p", "d", "f">>}
      [] param = "$orderby" -> {<<"n", " ", "d", "e", "s", "c">>}
      [] param = "$search" -> {<<" ", "q">>}
      [] param = "$select" -> {<<"a", ",", "b">>}
      [] param = "$skip" -> {<<"2">>, <<"-", "1">>}
      [] param = "$top" -> {<<"0">>, <<"x">>}
      [] OTHER -> {<<"z">>}

ValueLists(param) == UNION {[1..n -> Values(param)] : n \in 0..MaxValues}

Items ==
    UNION {{[param |-> k, values |-> vs] : vs \in ValueLists(k)} : k \in Params}

\* A dict has each key once.
DistinctKeys(s) ==
    \A i \in 1..Len(s) : \A j \in 1..Len(s) : i # j => s[i].param # s[j].param

RequestsOver(items) ==
    UNION {{s \in [1..n -> items] : DistinctKeys(s)} : n \in 0..MaxParams}

Requests == RequestsOver(Items)

\* The requests of a run of several calls: one value for each parameter, of the
\* parameters whose handlers can fail and of $count.
RepeatParams == {"$count", "$filter", "$format", "$skip", "$top"}

RepeatItems ==
    UNION {{[param |-> k, values |-> <<v>>] : v \in Values(k)} : k \in RepeatParams}

RepeatRequests == RequestsOver(RepeatItems)

(***************************************************************************)
(* parse_query_params, one action for its entry, one for each iteration of *)
(* its loop and one for its return.                                        *)
(***************************************************************************)
InitLab == fn = "" /\ arg = << >> /\ out = None

InitParser ==
    /\ pc = "idle"
    /\ query_params = << >>
    /\ idx = 1
    /\ options = ODataQueryOptions
    /\ obj = 0
    /\ allocated = 0
    /\ error = None
    /\ result = None
    /\ calls = << >>
    /\ parse_calls = << >>
    /\ handed = {}

Init == InitParser /\ InitLab

\* The caller calls parse_query_params(req): line 91.
Call(req) ==
    /\ pc # "loop"
    /\ allocated < MaxCalls
    /\ pc' = "loop"
    /\ query_params' = req
    /\ idx' = 1
    /\ options' = NewOptions.fields
    /\ obj' = NewOptions.obj
    /\ allocated' = allocated + 1
    /\ error' = None
    /\ result' = None
    /\ calls' = << >>
    /\ parse_calls' = << >>
    /\ handed' = handed \cup (IF pc = "returned" THEN {result[1].obj} ELSE {})
    /\ UNCHANGED <<fn, arg, out>>

\* The handler is back with r: its effects, and the loop goes on or the exception
\* leaves the call.
Handled(param, value, r, next) ==
    /\ pc' = next
    /\ idx' = IF next = "raised" THEN idx ELSE idx + 1
    /\ options' = r.options
    /\ error' = IF r.raised # None THEN r.raised ELSE error
    /\ calls' = Append(calls, [param |-> param, value |-> value])
    /\ parse_calls' = parse_calls \o r.parses

Dispatch(param, value, r) == Handled(param, value, r, AfterHandler(r))

\* The body of the loop for one item: lines 94-102.
Body(param, value) ==
    IF param \notin supported_options \/ value = None
    THEN /\ idx' = idx + 1
         /\ UNCHANGED <<pc, options, error, calls, parse_calls>>
    ELSE Dispatch(param, value[1], parser_func(param, value[1], options))

\* One iteration of the loop of lines 93-102, the handler's call included.
Iterate ==
    /\ pc = "loop"
    /\ idx <= Len(query_params)
    /\ Body(query_params[idx].param, FirstValue(query_params[idx].values))
    /\ UNCHANGED <<query_params, obj, allocated, result, handed, fn, arg, out>>

\* return options: line 104.
Return ==
    /\ pc = "loop"
    /\ idx > Len(query_params)
    /\ pc' = "returned"
    /\ result' = Some([obj |-> obj, fields |-> options])
    /\ UNCHANGED <<query_params, idx, options, obj, allocated, error, calls,
                   parse_calls, handed, fn, arg, out>>

\* One call on a new parser.
FirstCall == pc = "idle" /\ \E req \in Requests : Call(req)

Next == FirstCall \/ Iterate \/ Return

Spec == Init /\ [][Next]_vars

\* Call after call on one parser, failed calls included.
AnyCall == pc # "loop" /\ allocated < MaxCalls /\ \E req \in RepeatRequests : Call(req)

NextCalls == AnyCall \/ Iterate \/ Return

SpecCalls == Init /\ [][NextCalls]_vars

(***************************************************************************)
(* The handler laboratory: one handler applied to one value and a new      *)
(* ODataQueryOptions, for the claims about a single handler.               *)
(***************************************************************************)
RECURSIVE Concat(_)
Concat(pieces) ==
    IF pieces = << >> THEN << >> ELSE Head(pieces) \o Concat(Tail(pieces))

\* $skip / $top values: every string of at most MaxIntLen of these characters.
IntAlphabet == {"0", "1", "7", "-", "+", " ", "_", "x"}

IntStrings == UNION {[1..n -> IntAlphabet] : n \in 0..MaxIntLen}

\* $orderby values: at most MaxChunks of these pieces, concatenated.
OrderbyChunks ==
    {<<"n">>, <<" ">>, <<",">>, AscSuffix, DescSuffix,
     <<" ", "A", "S", "C">>, <<" ", "D", "e", "s", "c">>}

OrderbyStrings ==
    UNION {{Concat(ps) : ps \in [1..n -> OrderbyChunks]} : n \in 0..MaxChunks}

InitHandlers ==
    /\ InitParser
    /\ fn = ""
    /\ out = None
    /\ arg \in IntStrings \cup OrderbyStrings

Apply(name, r) ==
    /\ fn = ""
    /\ fn' = name
    /\ out' = Some(r)
    /\ UNCHANGED <<pc, query_params, idx, options, obj, allocated, error, result,
                   calls, parse_calls, handed, arg>>

ApplySkip == Apply("_parse_skip", _parse_skip(arg, ODataQueryOptions))

ApplyTop == Apply("_parse_top", _parse_top(arg, ODataQueryOptions))

ApplyOrderby == Apply("_parse_orderby", _parse_orderby(arg, ODataQueryOptions))

NextHandlers == ApplySkip \/ ApplyTop \/ ApplyOrderby

SpecHandlers == InitHandlers /\ [][NextHandlers]_vars

(***************************************************************************)
(* The filter laboratory: a filter value is typed lexeme by lexeme, and    *)
(* parse is applied to what has been typed.                                *)
(***************************************************************************)
\* What may start an operand: a comparison, a function call, "not", "(".
OperandUnits ==
    {<<"a", "eq", "1">>, <<"b", "ne", "'x'">>, <<"not">>, <<"(">>,
     <<"contains", "(", "a", ",", "'x'", ")">>}

\* What may follow an operand; a ")" may be typed with no "(" open.
OperatorUnits == {<<"and">>, <<"or">>, <<")">>}

OperandExpected ==
    IF arg = << >> THEN TRUE ELSE arg[Len(arg)] \in {"and", "or", "not", "("}

Type(unit) ==
    /\ fn = ""
    /\ Len(arg) + Len(unit) <= MaxTokens
    /\ arg' = arg \o unit
    /\ UNCHANGED <<pc, query_params, idx, options, obj, allocated, error, result,
                   calls, parse_calls, handed, fn, out>>

TypeOperand == OperandExpected /\ \E unit \in OperandUnits : Type(unit)

TypeOperator == ~OperandExpected /\ \E unit \in OperatorUnits : Type(unit)

ApplyParse == Apply("parse", parse(arg))

NextFilter == TypeOperand \/ TypeOperator \/ ApplyParse

SpecFilter == Init /\ [][NextFilter]_vars

(***************************************************************************)
(* C7.  The tree a filter value stands for, read off the lexemes without   *)
(* the parser: the loosest operator outside all parentheses splits the     *)
(* value, "or" before "and", the last one of a chain first.                *)
(***************************************************************************)
Opens(ts, lo, i) == Cardinality({k \in lo..(i - 1) : ts[k] = "("})
Closes(ts, lo, i) == Cardinality({k \in lo..(i - 1) : ts[k] = ")"})

\* How many parentheses opened at lo or later are open at lexeme i.
Depth(ts, lo, i) == Opens(ts, lo, i) - Closes(ts, lo, i)

TopLevel(ts, lo, hi, word) ==
    {i \in lo..hi : ts[i] = word /\ Depth(ts, lo, i) = 0}

Last(S) == CHOOSE i \in S : \A j \in S : j <= i

LexemeToken(lexeme) == [kind |-> TokenKind(lexeme), text |-> Canon(lexeme), position |-> 0]

IsLeaf(ts, lo, hi) ==
    \/ /\ hi = lo + 2
       /\ ts[lo] \in Identifiers
       /\ ts[lo + 1] \in ComparisonOperators
       /\ IsLiteral(LexemeToken(ts[lo + 2]))
    \/ /\ hi = lo + 5
       /\ ts[lo] \in Functions
       /\ ts[lo + 1] = "(" /\ ts[lo + 2] \in Identifiers /\ ts[lo + 3] = ","
       /\ ts[lo + 4] \in StringLiterals /\ ts[lo + 5] = ")"

Leaf(ts, lo) ==
    IF ts[lo] \in Functions
    THEN FunctionCall(ts[lo], field_path(ts[lo + 2]), literal(LexemeToken(ts[lo + 4])))
    ELSE Comparison(field_path(ts[lo]), ts[lo + 1], literal(LexemeToken(ts[lo + 2])))

\* ts[lo..hi] is an expression of the grammar.
RECURSIVE WellFormed(_, _, _)
WellFormed(ts, lo, hi) ==
    IF lo > hi THEN FALSE
    ELSE IF TopLevel(ts, lo, hi, "or") # {}
    THEN /\ WellFormed(ts, lo, Last(TopLevel(ts, lo, hi, "or")) - 1)
         /\ WellFormed(ts, Last(TopLevel(ts, lo, hi, "or")) + 1, hi)
    ELSE IF TopLevel(ts, lo, hi, "and") # {}
    THEN /\ WellFormed(ts, lo, Last(TopLevel(ts, lo, hi, "and")) - 1)
         /\ WellFormed(ts, Last(TopLevel(ts, lo, hi, "and")) + 1, hi)
    ELSE IF ts[lo] = "not" THEN WellFormed(ts, lo + 1, hi)
    ELSE IF ts[lo] = "("
    THEN /\ ts[hi] = ")"
         /\ \A i \in (lo + 1)..hi : Depth(ts, lo, i) >= 1
         /\ WellFormed(ts, lo + 1, hi - 1)
    ELSE IsLeaf(ts, lo, hi)

\* The tree of the well-formed ts[lo..hi]: "not" binds tighter than "and", "and"
\* tighter than "or", chains lean left, parentheses leave no node.
RECURSIVE Tree(_, _, _)
Tree(ts, lo, hi) ==
    IF TopLevel(ts, lo, hi, "or") # {}
    THEN Logical("or", Tree(ts, lo, Last(TopLevel(ts, lo, hi, "or")) - 1),
                       Tree(ts, Last(TopLevel(ts, lo, hi, "or")) + 1, hi))
    ELSE IF TopLevel(ts, lo, hi, "and") # {}
    THEN Logical("and", Tree(ts, lo, Last(TopLevel(ts, lo, hi, "and")) - 1),
                        Tree(ts, Last(TopLevel(ts, lo, hi, "and")) + 1, hi))
    ELSE IF ts[lo] = "not" THEN Unary(Tree(ts, lo + 1, hi))
    ELSE IF ts[lo] = "(" THEN Tree(ts, lo + 1, hi - 1)
    ELSE Leaf(ts, lo)

Parsing == fn = "parse" /\ out # None

\* C7: parse accepts exactly the well-formed filter values, and for each of
\* them it returns the tree in which "not" binds tighter than "and", "and" tighter
\* than "or", chains of "and" and of "or" lean left and a pair of parentheses
\* leaves no node.
C7_PrecedenceAndAssociativity ==
    Parsing =>
        /\ out[1].ok = WellFormed(arg, 1, Len(arg))
        /\ out[1].ok => out[1].node = Tree(arg, 1, Len(arg))

\* C7 witness: parse has returned the tree of (a or b) and c, or of a value in
\* which a chain of "or" holds an "and" and a "not".
C7_Witness ==
    /\ Parsing
    /\ out[1].ok
    /\ \/ arg = <<"(", "a", "eq", "1", "or", "b", "ne", "'x'", ")", "and", "a", "eq", "1">>
       \/ /\ Cardinality(TopLevel(arg, 1, Len(arg), "or")) >= 2
          /\ TopLevel(arg, 1, Len(arg), "and") # {}
          /\ \E i \in 1..Len(arg) : arg[i] = "not"

(***************************************************************************)
(* What the claims about one request and about a run of calls speak of.    *)
(***************************************************************************)
N == Len(query_params)
Ended == pc \in {"returned", "raised"}
ParamAt(i) == query_params[i].param
ValuesAt(i) == query_params[i].values

\* Item i has a handler and a value for it: its first value.
HasValue(i) == ParamAt(i) \in supported_options /\ ValuesAt(i) # << >>
ValueAt(i) == ValuesAt(i)[1]

\* The value is no integer >= 0.
NoNaturalNumber(value) ==
    IF IntOf(value).ok THEN IntOf(value).val < 0 ELSE TRUE

FormatNames ==
    {<<"j", "s", "o", "n">>, <<"x", "m", "l">>, <<"c", "s", "v">>, <<"t", "s", "v">>}

\* The value is one the handler of the parameter must reject, and the exception
\* it must raise.
Rejected(param, value) ==
    CASE param \in {"$skip", "$top"} -> NoNaturalNumber(value)
      [] param = "$format" -> value \notin FormatNames
      [] param = "$filter" -> ~parse(value).ok
      [] OTHER -> FALSE

Rejection(param, value) ==
    CASE param \in {"$skip", "$top"} -> NoPositiveIntegerValue(param, value)
      [] param = "$format" -> UnsupportedFormat(value)
      [] OTHER -> FilterError(parse(value).err, value)

Fails(i) == IF HasValue(i) THEN Rejected(ParamAt(i), ValueAt(i)) ELSE FALSE
FailsBefore(i) == \E j \in 1..(i - 1) : Fails(j)

\* The handler calls items 1..k ask for, in order.
RECURSIVE CallsOf(_)
CallsOf(k) ==
    IF k = 0 THEN << >>
    ELSE IF HasValue(k)
         THEN Append(CallsOf(k - 1), [param |-> ParamAt(k), value |-> ValueAt(k)])
         ELSE CallsOf(k - 1)

\* The outcome of a request as a function of the request alone: the handlers of
\* its items applied in turn to the defaults, up to the first exception.
RECURSIVE Run(_, _)
RunOn(rest, r) ==
    IF r.raised # None
    THEN [raised |-> r.raised, fields |-> None]
    ELSE Run(rest, r.options)

Run(items, opts) ==
    IF items = << >> THEN [raised |-> None, fields |-> Some(opts)]
    ELSE IF Head(items).param \in supported_options /\ Head(items).values # << >>
         THEN RunOn(Tail(items),
                    parser_func(Head(items).param, Head(items).values[1], opts))
         ELSE Run(Tail(items), opts)

Outcome(items) == Run(items, ODataQueryOptions)

\* What the call handed its caller.
Observed ==
    [raised |-> error,
     fields |-> IF pc = "returned" THEN Some(result[1].fields) ELSE None]

\* The $filter items of the request that have a value.
FilterItems == {i \in 1..N : ParamAt(i) = "$filter" /\ ValuesAt(i) # << >>}

(***************************************************************************)
(* C1                                                                      *)
(***************************************************************************)
\* C1 as stated: every request calls parse exactly once, and its tree is in
\* filter_ of the returned record or its error is the call's error.
C1_ParseExactlyOnce ==
    Ended =>
        /\ Len(parse_calls) = 1
        /\ IF parse(parse_calls[1]).ok
           THEN pc = "returned"
                /\ result[1].fields.filter_ = Some(parse(parse_calls[1]).node)
           ELSE pc = "raised"
                /\ error = Some(FilterError(parse(parse_calls[1]).err, parse_calls[1]))

\* C1 amended: a request calls parse at most once; exactly once, with the first
\* value of $filter, when it has a $filter with a value and no handler of an
\* earlier parameter raised, and not at all otherwise.  When parse returned a
\* tree and the call returns, filter_ of the returned record is that tree; when
\* parse raised, its error is the call's error.
C1_ParseAtMostOnce ==
    /\ Len(parse_calls) <= 1
    /\ Ended =>
        /\ (Len(parse_calls) = 1) = (\E i \in FilterItems : ~FailsBefore(i))
        /\ \A i \in FilterItems :
              ~FailsBefore(i) =>
                  /\ parse_calls = <<ValueAt(i)>>
                  /\ IF parse(ValueAt(i)).ok
                     THEN pc = "returned" =>
                              result[1].fields.filter_ = Some(parse(ValueAt(i)).node)
                     ELSE /\ pc = "raised"
                          /\ error = Some(FilterError(parse(ValueAt(i)).err, ValueAt(i)))
        /\ (pc = "returned" /\ FilterItems = {}) => result[1].fields.filter_ = None

\* C1 witness: a call that called parse once and returned its tree in filter_.
C1_Witness ==
    /\ pc = "returned"
    /\ Len(parse_calls) = 1
    /\ result[1].fields.filter_ # None
    /\ N = 2

(***************************************************************************)
(* C2                                                                      *)
(***************************************************************************)
BadNumberAt(i) ==
    /\ ParamAt(i) \in {"$skip", "$top"}
    /\ ValuesAt(i) # << >>
    /\ NoNaturalNumber(ValueAt(i))

NaturalOrNone(x) == IF x = None THEN TRUE ELSE x[1] >= 0

ReturnedNumbersNatural ==
    pc = "returned" =>
        /\ NaturalOrNone(result[1].fields.skip)
        /\ NaturalOrNone(result[1].fields.top)

BadFormatAt(i) ==
    /\ ParamAt(i) = "$format"
    /\ ValuesAt(i) # << >>
    /\ ValueAt(i) \notin FormatNames

ReturnedFormatSupported ==
    pc = "returned" =>
        IF result[1].fields.format_ = None THEN TRUE
        ELSE result[1].fields.format_[1] \in FormatNames

\* C4 as stated: a returned record has format_ None or one of json, xml, csv,
\* tsv, and a request whose $format value is anything else raises
\* UnsupportedFormat.
C4_AlwaysUnsupportedFormat ==
    /\ ReturnedFormatSupported
    /\ Ended =>
        \A i \in 1..N :
            BadFormatAt(i) =>
                pc = "raised" /\ error = Some(UnsupportedFormat(ValueAt(i)))

\* C4 amended: a returned record has format_ None or one of json, xml, csv, tsv,
\* and a request whose first $format value is anything else returns no record:
\* the call raises, and what it raises is UnsupportedFormat unless the handler of
\* an earlier parameter raised first.
C4_UnsupportedFormatRejected ==
    /\ ReturnedFormatSupported
    /\ Ended =>
        \A i \in 1..N :
            BadFormatAt(i) =>
                /\ pc = "raised"
                /\ result = None
                /\ ~FailsBefore(i) => error = Some(UnsupportedFormat(ValueAt(i)))

\* C4 witness: a call that raised UnsupportedFormat for its second parameter.
C4_Witness ==
    /\ pc = "raised"
    /\ idx = 2
    /\ BadFormatAt(2)
    /\ error = Some(UnsupportedFormat(ValueAt(2)))

(***************************************************************************)
(* C5                                                                      *)
(***************************************************************************)
\* C5: the handlers run in the iteration order of query_params; the first handler
\* that fails ends the call: no handler of a later parameter runs, its error is
\* the call's error, and no record is returned.  A call returns a record only
\* when every handler returned.
C5_AllOrNothing ==
    /\ pc = "loop" =>
          /\ calls = CallsOf(idx - 1)
          /\ ~FailsBefore(idx)
          /\ error = None
          /\ result = None
    /\ pc = "raised" =>
          /\ Fails(idx)
          /\ ~FailsBefore(idx)
          /\ calls = CallsOf(idx)
          /\ error = Some(Rejection(ParamAt(idx), ValueAt(idx)))
          /\ result = None
    /\ pc = "returned" =>
          /\ \A i \in 1..N : ~Fails(i)
          /\ calls = CallsOf(N)
          /\ error = None
          /\ result # None

\* C5 witness: the handler of the first parameter failed and the second parameter
\* has a value for a handler that never ran.
C5_Witness ==
    /\ pc = "raised"
    /\ idx = 1
    /\ N = 2
    /\ HasValue(2)
    /\ Len(calls) = 1

(***************************************************************************)
(* C6                                                                      *)
(***************************************************************************)
\* C6: whatever calls the parser served before, failed ones included, what a call
\* hands its caller is the outcome its query_params alone determine, and the
\* record a call returns is an object no earlier call returned.
C6_CallsIndependent ==
    /\ Ended => Observed = Outcome(query_params)
    /\ pc = "returned" => result[1].obj \notin handed

\* C6 witness: the last call of a run returned a record after an earlier call
\* returned one and another raised.
C6_Witness ==
    /\ pc = "returned"
    /\ handed # {}
    /\ allocated > Cardinality(handed) + 1
    /\ result[1].fields # ODataQueryOptions

(***************************************************************************)
(* C8                                                                      *)
(***************************************************************************)
FieldOf(param) ==
    CASE param = "$count" -> "count"
      [] param = "$expand" -> "expand"
      [] param = "$filter" -> "filter_"
      [] param = "$format" -> "format_"
      [] param = "$orderby" -> "orderby"
      [] param = "$search" -> "search"
      [] param = "$select" -> "select"
      [] param = "$skip" -> "skip"
      [] OTHER -> "top"

\* The request with every value after the first of each list left out.
FirstValuesOnly(items) ==
    [i \in 1..Len(items) |->
        [param |-> items[i].param,
         values |-> IF items[i].values = << >> THEN << >>
                    ELSE <<items[i].values[1]>>]]

\* C8: a handler is only ever passed the first value of its parameter's list, the
\* values after the first change nothing of the outcome, and a supported
\* parameter with an empty list runs no handler and leaves its field at the
\* default.
C8_FirstValueOnly ==
    /\ \A k \in 1..Len(calls) :
          \E i \in 1..N : HasValue(i) /\ calls[k] = [param |-> ParamAt(i), value |-> ValueAt(i)]
    /\ Ended => Observed = Outcome(FirstValuesOnly(query_params))
    /\ \A i \in 1..N :
          (ParamAt(i) \in supported_options /\ ValuesAt(i) = << >>) =>
              /\ \A k \in 1..Len(calls) : calls[k].param # ParamAt(i)
              /\ pc = "returned" =>
                     result[1].fields[FieldOf(ParamAt(i))]
                         = ODataQueryOptions[FieldOf(ParamAt(i))]

\* C8 witness: a call returned for a request with a list of two different values
\* and a supported parameter with an empty list.
C8_Witness ==
    /\ pc = "returned"
    /\ N = 2
    /\ \E i \in 1..N :
          /\ ParamAt(i) = "$skip"
          /\ Len(ValuesAt(i)) = 2
          /\ ValuesAt(i)[1] # ValuesAt(i)[2]
    /\ \E i \in 1..N : ParamAt(i) \in supported_options /\ ValuesAt(i) = << >>

(***************************************************************************)
(* C3 and C9: one handler, one value.                                      *)
(***************************************************************************)
Positive(value) == IF IntOf(value).ok THEN IntOf(value).val > 0 ELSE FALSE

AppliedNumber == fn \in {"_parse_skip", "_parse_top"} /\ out # None
NumberOption == IF fn = "_parse_skip" THEN "$skip" ELSE "$top"
NumberField == IF fn = "_parse_skip" THEN "skip" ELSE "top"

\* C3: _parse_skip and _parse_top raise NoPositiveIntegerValue if the value is
\* not a positive integer, and set options.skip / options.top, to that integer,
\* only when the value is a positive integer.
C3_PositiveIntegerOnly ==
    AppliedNumber =>
        /\ ~Positive(arg) =>
               out[1].raised = Some(NoPositiveIntegerValue(NumberOption, arg))
        /\ out[1].options[NumberField] # None =>
               /\ Positive(arg)
               /\ out[1].options[NumberField] = Some(IntOf(arg).val)

\* The direction suffix of a trimmed item: its length, 0 when it has none.
SuffixLen(item) ==
    IF EndsWith(Lower(item), DescSuffix) THEN Len(DescSuffix)
    ELSE IF EndsWith(Lower(item), AscSuffix) THEN Len(AscSuffix)
         ELSE 0

ItemField(item) == SubSeq(item, 1, Len(item) - SuffixLen(item))
ItemDirection(item) == IF EndsWith(Lower(item), DescSuffix) THEN "desc" ELSE "asc"

\* C9: for a non-empty $orderby value there is one entry for each item between
\* commas, in order; its direction is desc if the trimmed item ends, in any case,
\* with " desc" and asc otherwise, and its field is the trimmed item without
\* that trailing " asc" / " desc" and with nothing else changed.
C9_OrderbyEntries ==
    (fn = "_parse_orderby" /\ out # None /\ arg # << >>) =>
        /\ out[1].raised = None
        /\ out[1].options.orderby # None
        /\ Len(out[1].options.orderby[1]) = Len(Split(arg, ","))
        /\ \A i \in 1..Len(Split(arg, ",")) :
              /\ out[1].options.orderby[1][i].direction
                     = ItemDirection(Strip(Split(arg, ",")[i]))
              /\ out[1].options.orderby[1][i].field
                     = ItemField(Strip(Split(arg, ",")[i]))

====
